---- MODULE Spec2Model ----
(***************************************************************************)
(* Model of micrometa/imagej.py: the tile-configuration generator and      *)
(* writers, the template locator and the stitching-macro generator and     *)
(* writer.                                                                 *)
(*                                                                         *)
(* Text is modelled as a sequence of atoms.  Caller-supplied text (paths,  *)
(* file names, numbers) is spelled out one character per atom, so that     *)
(* startswith, endswith, replace, dirname, basename, splitext, sort and    *)
(* the number formats are computed as Python computes them.  The fixed     *)
(* literals of the program that no operation looks into are one atom.      *)
(***************************************************************************)
EXTENDS Integers, Sequences, FiniteSets, TLC

VARIABLES pc, op, arg, ret, disk, handles, wlog, frame, loop

vars == <<pc, op, arg, ret, disk, handles, wlog, frame, loop>>

(***************************************************************************)
(* Bounds of the model.                                                    *)
(***************************************************************************)
MaxSubvols == 2
MaxMosaics == 10
MaxOpts == 2
MaxTplLines == 1

(***************************************************************************)
(* Generic sequence helpers.                                               *)
(***************************************************************************)
Range(s) == {s[i] : i \in 1..Len(s)}

Prefix(s, n) == SubSeq(s, 1, n)

Drop(s, n) == SubSeq(s, n + 1, Len(s))

RECURSIVE Concat(_)
Concat(ss) == IF ss = <<>> THEN <<>> ELSE Head(ss) \o Concat(Tail(ss))

Count(s, c) == Cardinality({i \in 1..Len(s) : s[i] = c})

\* s.rfind(c) + 1: the 1-based position of the last c in s, 0 when absent
RFind(s, c) ==
    LET hits == {i \in 1..Len(s) : s[i] = c}
    IN  IF hits = {} THEN 0 ELSE CHOOSE i \in hits : \A j \in hits : j <= i

\* s.find(c) + 1: the 1-based position of the first c in s, 0 when absent
Find(s, c) ==
    LET hits == {i \in 1..Len(s) : s[i] = c}
    IN  IF hits = {} THEN 0 ELSE CHOOSE i \in hits : \A j \in hits : i <= j

(***************************************************************************)
(* Python str methods.                                                     *)
(***************************************************************************)
startswith(s, p) == Len(p) <= Len(s) /\ Prefix(s, Len(p)) = p

endswith(s, p) == Len(p) <= Len(s) /\ Drop(s, Len(s) - Len(p)) = p

\* s.replace(old, new) for a one-character old
replace(s, old, new) ==
    Concat([i \in 1..Len(s) |-> IF s[i] = old THEN new ELSE <<s[i]>>])

LowerChar(c) ==
    CASE c = "A" -> "a" [] c = "F" -> "f" [] c = "J" -> "j"
      [] c = "O" -> "o" [] c = "R" -> "r" [] OTHER -> c

lower(s) == [i \in 1..Len(s) |-> LowerChar(s[i])]

\* The characters of the model in code-point order.
Ascii ==
    << "-", ".", "/", "0", "1", "2", "3", "4", "5", "6", "7", "8", "9",
       "A", "F", "J", "O", "R", "\\", "_",
       "a", "b", "d", "e", "f", "i", "j", "l", "m", "o", "p", "q",
       "r", "s", "t", "z" >>

Ord(c) == CHOOSE i \in 1..Len(Ascii) : Ascii[i] = c

\* Python's  a < b  on str
RECURSIVE StrLess(_, _)
StrLess(a, b) ==
    IF b = <<>> THEN FALSE
    ELSE IF a = <<>> THEN TRUE
    ELSE IF Head(a) = Head(b) THEN StrLess(Tail(a), Tail(b))
    ELSE Ord(Head(a)) < Ord(Head(b))

\* list.sort() of a list of distinct str, given here as a set
RECURSIVE SortStr(_)
SortStr(S) ==
    IF S = {} THEN <<>>
    ELSE LET m == CHOOSE x \in S : \A y \in S \ {x} : StrLess(x, y)
         IN  <<m>> \o SortStr(S \ {m})

\* str(n) for n >= 0, one digit per atom
DigitChar(d) == <<"0", "1", "2", "3", "4", "5", "6", "7", "8", "9">>[d + 1]

RECURSIVE Str(_)
Str(n) == IF n < 10 THEN <<DigitChar(n)>>
          ELSE Str(n \div 10) \o <<DigitChar(n % 10)>>

Zeros(n) == [i \in 1..n |-> "0"]

\* '%0<width>i' % n  for n >= 0: zero-padded to at least width characters
FormatPaddedInt(width, n) ==
    LET d == Str(n)
    IN  IF Len(d) >= width THEN d ELSE Zeros(width - Len(d)) \o d

\* '%f' % x for an integral x: six decimals
FormatF(x) ==
    (IF x < 0 THEN <<"-">> \o Str(-x) ELSE Str(x)) \o <<".">> \o Zeros(6)

\* fmt % args, where the atom "%f" of fmt is a conversion.  Python raises
\* TypeError unless the tuple has exactly one value per conversion.
RECURSIVE Subst(_, _)
Subst(fmt, args) ==
    IF fmt = <<>> THEN <<>>
    ELSE IF Head(fmt) = "%f" THEN FormatF(Head(args)) \o Subst(Tail(fmt), Tail(args))
    ELSE <<Head(fmt)>> \o Subst(Tail(fmt), args)

PyFormat(fmt, args) ==
    IF Count(fmt, "%f") = Len(args)
    THEN [kind |-> "value", val |-> Subst(fmt, args), err |-> ""]
    ELSE [kind |-> "error", val |-> <<>>, err |-> "TypeError"]

(***************************************************************************)
(* os.path (posixpath).                                                    *)
(***************************************************************************)
join(a, b) ==
    IF startswith(b, <<"/">>) THEN b
    ELSE IF a = <<>> \/ endswith(a, <<"/">>) THEN a \o b
    ELSE a \o <<"/">> \o b

RECURSIVE RStripSlash(_)
RStripSlash(s) ==
    IF s # <<>> /\ s[Len(s)] = "/" THEN RStripSlash(Prefix(s, Len(s) - 1)) ELSE s

dirname(p) ==
    LET head == Prefix(p, RFind(p, "/"))
    IN  IF head # <<>> /\ Range(head) # {"/"} THEN RStripSlash(head) ELSE head

basename(p) == Drop(p, RFind(p, "/"))

\* splitext(p)[0]: p without its extension; leading dots of the last
\* component do not start an extension
splitext0(p) ==
    LET sep == RFind(p, "/")
        dot == RFind(p, ".")
    IN  IF dot > sep /\ \E k \in (sep + 1)..(dot - 1) : p[k] # "."
        THEN Prefix(p, dot - 1)
        ELSE p

Value(v) == [kind |-> "value", val |-> v, err |-> ""]

Raise(e) == [kind |-> "error", val |-> <<>>, err |-> e]

NoResult == [kind |-> "none", val |-> <<>>, err |-> ""]

(***************************************************************************)
(* Inputs: mosaics.  A mosaic is [index, path, subvol]; a sub-volume is    *)
(* [Z, rel, full]: its Z size, its relative position and its full path.    *)
(***************************************************************************)
StoragePaths == { <<"/", "d", "/">>, <<"d", "\\">> }

VolFulls == { <<"/", "d", "/", "a">>, <<"d", "\\", "s", "\\", "a">>, <<"b">> }

SizesZ == {1, 2}

RelPositions == { <<0, 12>>, <<-3, 0>>, <<12, 0, 5>> }

Subvols == [Z : SizesZ, rel : RelPositions, full : VolFulls]

SeqsUpTo(S, lo, hi) == UNION {[1..n -> S] : n \in lo..hi}

TileMosaics ==
    [index : {0}, path : StoragePaths, subvol : SeqsUpTo(Subvols, 1, MaxSubvols)]

(***************************************************************************)
(* gen_tile_config                                                         *)
(***************************************************************************)
HeaderLine == <<"# Generated by micrometa.imagej (version).\n#\n">>

DimCommentLine == <<"# Define the number of dimensions we are working on\n">>

CoordCommentLine == <<"# Define the image coordinates (in pixels)\n">>

Dim3Line == <<"dim = 3\n">>

Dim2Line == <<"dim = 2\n">>

Format3Pad == <<"(", "%f", ",", " ", "%f", ",", " ", "0", ".", "0", ")", "\n">>

Format3 == <<"(", "%f", ",", " ", "%f", ",", " ", "%f", ")", "\n">>

Format2 == <<"(", "%f", ",", " ", "%f", ")", "\n">>

subvol_size_z(mosaic_ds) == mosaic_ds.subvol[1].Z

subvol_position_dim(mosaic_ds) == Len(mosaic_ds.subvol[1].rel)

dim_line(mosaic_ds) ==
    IF subvol_size_z(mosaic_ds) > 1 THEN Dim3Line ELSE Dim2Line

\* coord_format without the padding of lower-dimensional positions
coord_format_nopad(mosaic_ds) ==
    IF subvol_size_z(mosaic_ds) > 1 THEN Format3 ELSE Format2

coord_format(mosaic_ds) ==
    IF subvol_size_z(mosaic_ds) > 1
    THEN IF subvol_position_dim(mosaic_ds) < 3 THEN Format3Pad ELSE Format3
    ELSE Format2

\* tile_path without the conversion of the separators
tile_path_raw(mosaic_ds, vol) ==
    LET vol_fname == IF startswith(vol.full, mosaic_ds.path)
                     THEN Drop(vol.full, Len(mosaic_ds.path))
                     ELSE vol.full
    IN  vol_fname \o <<";", " ", ";", " ">>

\* the path part of a sub-volume's line: relative to the mosaic, '; ; '
\* appended, backslashes turned into forward slashes
tile_path(mosaic_ds, vol) ==
    LET vol_fname == IF startswith(vol.full, mosaic_ds.path)
                     THEN Drop(vol.full, Len(mosaic_ds.path))
                     ELSE vol.full
        line == vol_fname \o <<";", " ", ";", " ">>
    IN  replace(line, "\\", <<"/">>)

tile_line(mosaic_ds, vol, fmt) ==
    LET coords == PyFormat(fmt, vol.rel)
    IN  IF coords.kind = "error" THEN coords
        ELSE Value(tile_path(mosaic_ds, vol) \o coords.val)

gen_tile_config(mosaic_ds) ==
    LET fmt == coord_format(mosaic_ds)
        n == Len(mosaic_ds.subvol)
        lines == [i \in 1..n |-> tile_line(mosaic_ds, mosaic_ds.subvol[i], fmt)]
    IN  IF \E i \in 1..n : lines[i].kind = "error"
        THEN Raise("TypeError")
        ELSE Value(<<HeaderLine, DimCommentLine, dim_line(mosaic_ds), CoordCommentLine>>
                   \o [i \in 1..n |-> lines[i].val])

(***************************************************************************)
(* The file system the template locator looks at: a set of existing paths. *)
(* exists and listdir are the collaborators of locate_templates.           *)
(***************************************************************************)
ModuleDir == <<"/", "m">>

DefaultTemplates == <<"i", "j", "m", "_", "t", "e", "m", "p", "l", "a", "t", "e", "s">>

ZipSuffix == <<".", "z", "i", "p">>

JarSuffix == <<".", "j", "a", "r">>

DirEntries == { <<"/", "t">>, join(ModuleDir, DefaultTemplates) }

FsPool ==
    { join(ModuleDir, DefaultTemplates), join(ModuleDir, DefaultTemplates) \o ZipSuffix,
      <<"/", "p", "/", "f", "o", "o", "-", "1", ".", "0", ".", "0", ".", "j", "a", "r">>, <<"/", "p", "/", "f", "o", "o", "-", "1", ".", "2", ".", "0", ".", "j", "a", "r">>, <<"/", "p", "/", "b", "a", "r", ".", "j", "a", "r">>, <<"/", "p", "/", "f", "o", "o", "z">>, <<"/", "t">> }

FileSystems == SUBSET FsPool

TplPaths ==
    { <<>>, <<"/", "t">>, <<"/", "x">>, <<"/", "p", "/", "f", "o", "o", ".", "j", "a", "r">>, <<"/", "p", "/", "f", "o", "o", "-", "1", ".", "0", ".", "0", ".", "j", "a", "r">>, <<"/", "p", "/", "f", "o", "o", ".", "J", "A", "R">>,
      <<"/", "q", "/", "f", "o", "o", ".", "j", "a", "r">>, <<"/", "t", "/", "f", "o", "o", ".", "j", "a", "r">>, <<"f", "o", "o", ".", "j", "a", "r">> }

exists(path, fs) == path \in fs \/ \E q \in fs : dirname(q) = path

isdir(path, fs) == (path \in fs /\ path \in DirEntries) \/ \E q \in fs : dirname(q) = path

\* os.listdir: the names of the entries of a directory, OSError when the
\* directory does not exist
listdir(dir, fs) ==
    IF isdir(dir, fs)
    THEN Value({basename(q) : q \in {e \in fs : dirname(e) = dir}})
    ELSE Raise("OSError: No such file or directory")

(***************************************************************************)
(* locate_templates                                                        *)
(***************************************************************************)
TemplatesNotFound == Raise("IOError: Templates location can't be found!")

\* lines 108-113: the default location, a directory or else a .zip
default_tplpath(tplpath, fs) ==
    IF tplpath = <<>>
    THEN LET dflt == join(ModuleDir, DefaultTemplates)
         IN  IF ~exists(dflt, fs) THEN dflt \o ZipSuffix ELSE dflt
    ELSE tplpath

\* lines 121-124: the entries of the jar's directory starting with its base name
jar_candidates(entries, jar_basename) ==
    {candidate \in entries : startswith(candidate, jar_basename)}

\* pick_candidate taking the first of the sorted candidates
pick_candidate_first(candidates) ==
    LET sorted == SortStr(candidates)
    IN  IF sorted = <<>> THEN Raise("IndexError: list index out of range")
        ELSE Value(sorted[1])

\* lines 125-127: the last of the sorted candidates; candidates[-1] raises
\* IndexError on an empty list
pick_candidate(candidates) ==
    LET sorted == SortStr(candidates)
    IN  IF sorted = <<>> THEN Raise("IndexError: list index out of range")
        ELSE Value(sorted[Len(sorted)])

\* lines 117-127: the jar lookup
locate_jar(tplpath, fs) ==
    LET jar_dir == dirname(tplpath)
        jar_basename == basename(splitext0(tplpath))
        entries == listdir(jar_dir, fs)
    IN  IF entries.kind = "error" THEN entries
        ELSE LET picked == pick_candidate(jar_candidates(entries.val, jar_basename))
             IN  IF picked.kind = "error" THEN picked
                 ELSE Value(join(jar_dir, picked.val))

locate_templates(tplpath, fs) ==
    LET p1 == default_tplpath(tplpath, fs)
        p2 == IF endswith(lower(p1), JarSuffix) THEN locate_jar(p1, fs) ELSE Value(p1)
    IN  IF p2.kind = "error" THEN p2
        ELSE IF ~exists(p2.val, fs) THEN TemplatesNotFound
        ELSE p2

(***************************************************************************)
(* gen_stitching_macro_code                                                *)
(*                                                                         *)
(* An experiment is [dname, overlap]: the name of its input file's         *)
(* directory and the overlap of its first mosaic, in tenths of a percent.  *)
(* opts is the dict in its iteration order: a sequence of <<key, value>>   *)
(* with distinct keys.  tpl holds the lines of the two template files.     *)
(***************************************************************************)
OverlapThreshold == 50

Overlaps == {0, 49, 50, 51}

Experiments == [dname : { <<"e", "x", "p">> }, overlap : Overlaps]

MacroPaths == { <<"/", "d", "/", "i", "n">>, <<"d", "\\", "i", "n">> }

OptKeys == {"compute", "fusion", "regression"}

OptValues == {"false", "true"}

IsDict(o) == \A i, j \in 1..Len(o) : i # j => o[i][1] # o[j][1]

Opts == {o \in SeqsUpTo(OptKeys \X OptValues, 0, MaxOpts) : IsDict(o)}

ComputeFalseLine == <<"compute", " = ", "false", ";\n">>

TplLinePool == { ComputeFalseLine, <<"run(\"Stitch\");\n">> }

Templates ==
    [head : SeqsUpTo(TplLinePool, 0, MaxTplLines),
     body : SeqsUpTo(TplLinePool, 0, MaxTplLines)]

Prefixes == { <<"s", "t">> }

\* the template locations a macro is generated from: tplpath and file system
MacroLocations ==
    { [tplpath |-> <<>>, fs |-> {join(ModuleDir, DefaultTemplates)}],
      [tplpath |-> <<>>, fs |-> {}],
      [tplpath |-> <<"/", "x">>, fs |-> {<<"/", "t">>}],
      [tplpath |-> <<"/", "t", "/", "f", "o", "o", ".", "j", "a", "r">>, fs |-> {<<"/", "t">>}],
      [tplpath |-> <<"/", "p", "/", "f", "o", "o", ".", "j", "a", "r">>, fs |-> {<<"/", "p", "/", "f", "o", "o", "-", "1", ".", "0", ".", "0", ".", "j", "a", "r">>, <<"/", "p", "/", "f", "o", "o", "-", "1", ".", "2", ".", "0", ".", "j", "a", "r">>}] }

\* iotools.readtxt: the lines of a file of the templates location
readtxt(fname, templates, tpl) ==
    IF endswith(fname, <<"_head.ijm">>) THEN tpl.head ELSE tpl.body

MacroHeaderLine == <<"// Generated by micrometa.imagej (version).\n\n">>

BeginHeadLine == <<"// =================== BEGIN macro HEAD ===================\n">>

EndHeadLine == <<"// ==================== END macro HEAD ====================\n">>

BeginBodyLine == <<"// =================== BEGIN macro BODY ===================\n">>

EndBodyLine == <<"// ==================== END macro BODY ====================\n">>

BlankLine == <<"\n">>

BatchModeLine == <<"use_batch_mode = true;\n">>

name_line(experiment) == <<"name = \"">> \o experiment.dname \o <<"\";\n">>

\* lines 179-180: every backslash of the path doubled
input_dir_line(path) ==
    <<"input_dir=\"">> \o replace(path, "\\", <<"\\", "\\">>) \o <<"\";\n">>

option_line(item) == <<item[1], " = ", item[2], ";\n">>

option_lines(opts) == [i \in 1..Len(opts) |-> option_line(opts[i])]

\* compute_lines with the threshold included
compute_lines_le(experiment) ==
    IF experiment.overlap <= OverlapThreshold THEN <<ComputeFalseLine>> ELSE <<>>

\* lines 187-188
compute_lines(experiment) ==
    IF experiment.overlap < OverlapThreshold THEN <<ComputeFalseLine>> ELSE <<>>

\* macro_lines with the generated compute line ahead of the options
macro_lines_compute_first(experiment, pfx, path, opts, templates, tpl) ==
    <<MacroHeaderLine, BeginHeadLine>>
    \o readtxt(pfx \o <<"_head.ijm">>, templates, tpl)
    \o <<EndHeadLine, BlankLine>>
    \o <<name_line(experiment), input_dir_line(path), BatchModeLine>>
    \o compute_lines(experiment)
    \o option_lines(opts)
    \o <<BlankLine, BeginBodyLine>>
    \o readtxt(pfx \o <<"_body.ijm">>, templates, tpl)
    \o <<EndBodyLine>>

\* lines 170-193, after the templates were located
macro_lines(experiment, pfx, path, opts, templates, tpl) ==
    <<MacroHeaderLine, BeginHeadLine>>
    \o readtxt(pfx \o <<"_head.ijm">>, templates, tpl)
    \o <<EndHeadLine, BlankLine>>
    \o <<name_line(experiment), input_dir_line(path), BatchModeLine>>
    \o option_lines(opts)
    \o compute_lines(experiment)
    \o <<BlankLine, BeginBodyLine>>
    \o readtxt(pfx \o <<"_body.ijm">>, templates, tpl)
    \o <<EndBodyLine>>

gen_stitching_macro_code(experiment, pfx, path, tplpath, opts, fs, tpl) ==
    LET templates == locate_templates(tplpath, fs)
    IN  IF templates.kind = "error" THEN templates
        ELSE Value(macro_lines(experiment, pfx, path, opts, templates.val, tpl))

(***************************************************************************)
(* Inputs of the writers.                                                  *)
(***************************************************************************)
OutDirs == { <<>>, <<"/", "o">> }

PadLens == {0, 2}

IndexBases == {0, 1, 10}

\* the mosaics of the experiments written: a 2-D one and a 3-D one
WriterShapes ==
    { [path |-> <<"/", "d", "/">>,
       subvol |-> << [Z |-> 1, rel |-> <<0, 12>>, full |-> <<"/", "d", "/", "a">>] >>],
      [path |-> <<"/", "d", "/">>,
       subvol |-> << [Z |-> 2, rel |-> <<0, 12>>, full |-> <<"/", "d", "/", "a">>],
                     [Z |-> 2, rel |-> <<-3, 0>>, full |-> <<"d", "\\", "s", "\\", "a">>] >>] }

MkMosaic(index, shape) ==
    [index |-> index, path |-> shape.path, subvol |-> shape.subvol]

\* an experiment: its mosaics, indexed consecutively from base
MkExperiment(n, base, shape) == [i \in 1..n |-> MkMosaic(base + i - 1, shape)]

WriterMosaics ==
    {MkMosaic(index, shape) : index \in {0, 7}, shape \in WriterShapes}
    \cup {[index |-> 3, path |-> <<"/", "d", "/">>,
           subvol |-> << [Z |-> 1, rel |-> <<12, 0, 5>>, full |-> <<"/", "d", "/", "a">>] >>]}

MacroCodes == { <<MacroHeaderLine>>, <<MacroHeaderLine, BatchModeLine, EndBodyLine>> }

MacroNames == { <<"s", ".", "i", "j", "m">> }

(***************************************************************************)
(* write_tile_config, write_all_tile_configs, write_stitching_macro        *)
(***************************************************************************)
\* lines 82-83: 'mosaic_%0<padlen>i.txt' % index
tile_config_name(mosaic_ds, padlen) ==
    <<"mosaic_">> \o FormatPaddedInt(padlen, mosaic_ds.index) \o <<".txt">>

\* lines 82-87
tile_config_fname(mosaic_ds, outdir, padlen) ==
    IF outdir = <<>>
    THEN join(mosaic_ds.path, tile_config_name(mosaic_ds, padlen))
    ELSE join(outdir, tile_config_name(mosaic_ds, padlen))

\* padlen_of taking the number of mosaics for the width
padlen_count(experiment) == Len(experiment)

\* line 99
padlen_of(experiment) == Len(Str(Len(experiment)))

\* the proper prefixes of the lines: what a failed writelines may leave
Partial(lines) == {Prefix(lines, n) : n \in 0..(Len(lines) - 1)}

(***************************************************************************)
(* State.  pc is the position of the running call ("idle" before a call,   *)
(* "done" after it returned or raised), op its name, arg its arguments,    *)
(* ret what it returned or raised.  disk maps the files written to their   *)
(* lines, handles is the set of open file handles, wlog the files opened   *)
(* for writing, in order.                                                  *)
(***************************************************************************)
NoFrame == [active |-> FALSE]

Init ==
    /\ pc = "idle"
    /\ op = "none"
    /\ arg = <<>>
    /\ ret = NoResult
    /\ disk = <<>>
    /\ handles = {}
    /\ wlog = <<>>
    /\ frame = NoFrame
    /\ loop = NoFrame

CallGenTileConfig ==
    /\ pc = "idle"
    /\ \E mosaic_ds \in TileMosaics :
         /\ op' = "gen_tile_config"
         /\ arg' = [mosaic_ds |-> mosaic_ds]
         /\ ret' = gen_tile_config(mosaic_ds)
    /\ pc' = "done"
    /\ UNCHANGED <<disk, handles, wlog, frame, loop>>

CallLocateTemplates ==
    /\ pc = "idle"
    /\ \E tplpath \in TplPaths, fs \in FileSystems :
         /\ op' = "locate_templates"
         /\ arg' = [tplpath |-> tplpath, fs |-> fs]
         /\ ret' = locate_templates(tplpath, fs)
    /\ pc' = "done"
    /\ UNCHANGED <<disk, handles, wlog, frame, loop>>

CallGenStitchingMacroCode ==
    /\ pc = "idle"
    /\ \E experiment \in Experiments, pfx \in Prefixes, path \in MacroPaths,
          loc \in MacroLocations, opts \in Opts, tpl \in Templates :
         /\ op' = "gen_stitching_macro_code"
         /\ arg' = [experiment |-> experiment, pfx |-> pfx, path |-> path,
                    tplpath |-> loc.tplpath, fs |-> loc.fs, opts |-> opts, tpl |-> tpl]
         /\ ret' = gen_stitching_macro_code(experiment, pfx, path, loc.tplpath,
                                            opts, loc.fs, tpl)
    /\ pc' = "done"
    /\ UNCHANGED <<disk, handles, wlog, frame, loop>>

\* lines 80-87 of write_tile_config: the config and the file name.  A
\* TypeError of gen_tile_config propagates before any file is opened.
EnterWriteTileConfig(mosaic_ds, outdir, padlen) ==
    LET config == gen_tile_config(mosaic_ds)
    IN  IF config.kind = "error"
        THEN /\ pc' = "done"
             /\ ret' = config
             /\ frame' = NoFrame
        ELSE /\ pc' = "wtc_open"
             /\ ret' = NoResult
             /\ frame' = [active |-> TRUE, mosaic_ds |-> mosaic_ds,
                          config |-> config.val,
                          fname |-> tile_config_fname(mosaic_ds, outdir, padlen)]

CallWriteTileConfig ==
    /\ pc = "idle"
    /\ \E mosaic_ds \in WriterMosaics, outdir \in OutDirs, padlen \in PadLens :
         /\ op' = "write_tile_config"
         /\ arg' = [mosaic_ds |-> mosaic_ds, outdir |-> outdir, padlen |-> padlen]
         /\ EnterWriteTileConfig(mosaic_ds, outdir, padlen)
    /\ UNCHANGED <<disk, handles, wlog, loop>>

\* line 88: open(fname, 'w') creates or truncates the file
WtcOpenOk ==
    /\ pc = "wtc_open"
    /\ disk' = [f \in DOMAIN disk \cup {frame.fname} |->
                  IF f = frame.fname THEN <<>> ELSE disk[f]]
    /\ handles' = handles \cup {frame.fname}
    /\ wlog' = Append(wlog, frame.fname)
    /\ pc' = "wtc_write"
    /\ UNCHANGED <<op, arg, ret, frame, loop>>

\* line 88: open raises IOError, which no caller handles
WtcOpenFail ==
    /\ pc = "wtc_open"
    /\ ret' = Raise("IOError")
    /\ pc' = "done"
    /\ UNCHANGED <<op, arg, disk, handles, wlog, frame, loop>>

\* line 89
WtcWriteOk ==
    /\ pc = "wtc_write"
    /\ disk' = [disk EXCEPT ![frame.fname] = frame.config]
    /\ pc' = "wtc_close"
    /\ UNCHANGED <<op, arg, ret, handles, wlog, frame, loop>>

\* WtcWriteFail with the error swallowed: the loop goes on
WtcWriteFailSwallowed ==
    /\ pc = "wtc_write"
    /\ \E part \in Partial(frame.config) :
         disk' = [disk EXCEPT ![frame.fname] = part]
    /\ handles' = handles \ {frame.fname}
    /\ IF loop.active
       THEN /\ loop' = [loop EXCEPT !.i = @ + 1]
            /\ pc' = "watc_loop"
       ELSE /\ loop' = loop
            /\ pc' = "done"
    /\ UNCHANGED <<op, arg, ret, wlog, frame>>

\* line 89: writelines raises IOError; line 90 is not reached, and no
\* caller handles the error
WtcWriteFail ==
    /\ pc = "wtc_write"
    /\ \E part \in Partial(frame.config) :
         disk' = [disk EXCEPT ![frame.fname] = part]
    /\ ret' = Raise("IOError")
    /\ pc' = "done"
    /\ UNCHANGED <<op, arg, handles, wlog, frame, loop>>

\* lines 90-91, and the return to the caller: the loop of
\* write_all_tile_configs or the top level
WtcClose ==
    /\ pc = "wtc_close"
    /\ handles' = handles \ {frame.fname}
    /\ frame' = NoFrame
    /\ IF loop.active
       THEN /\ loop' = [loop EXCEPT !.i = @ + 1]
            /\ pc' = "watc_loop"
            /\ ret' = ret
       ELSE /\ loop' = loop
            /\ pc' = "done"
            /\ ret' = Value(<<>>)
    /\ UNCHANGED <<op, arg, disk, wlog>>

\* lines 99-100
CallWriteAllTileConfigs ==
    /\ pc = "idle"
    /\ \E n \in 0..MaxMosaics, base \in IndexBases, shape \in WriterShapes,
          outdir \in OutDirs :
         LET experiment == MkExperiment(n, base, shape)
         IN  /\ op' = "write_all_tile_configs"
             /\ arg' = [experiment |-> experiment, outdir |-> outdir]
             /\ loop' = [active |-> TRUE, i |-> 1, padlen |-> padlen_of(experiment)]
    /\ pc' = "watc_loop"
    /\ UNCHANGED <<ret, disk, handles, wlog, frame>>

\* lines 101-102: the next mosaic, or the end of the loop
WatcIterate ==
    /\ pc = "watc_loop"
    /\ loop.i <= Len(arg.experiment)
    /\ EnterWriteTileConfig(arg.experiment[loop.i], arg.outdir, loop.padlen)
    /\ UNCHANGED <<op, arg, disk, handles, wlog, loop>>

WatcReturn ==
    /\ pc = "watc_loop"
    /\ loop.i > Len(arg.experiment)
    /\ pc' = "done"
    /\ ret' = Value(<<>>)
    /\ UNCHANGED <<op, arg, disk, handles, wlog, frame, loop>>

\* lines 210-211
CallWriteStitchingMacro ==
    /\ pc = "idle"
    /\ \E code \in MacroCodes, fname \in MacroNames, dname \in OutDirs :
         /\ op' = "write_stitching_macro"
         /\ arg' = [code |-> code, fname |-> fname, dname |-> dname]
         /\ frame' = [active |-> TRUE, config |-> code, fname |-> join(dname, fname)]
    /\ pc' = "wsm_open"
    /\ UNCHANGED <<ret, disk, handles, wlog, loop>>

\* line 212: entering the with statement
WsmOpenOk ==
    /\ pc = "wsm_open"
    /\ disk' = [f \in DOMAIN disk \cup {frame.fname} |->
                  IF f = frame.fname THEN <<>> ELSE disk[f]]
    /\ handles' = handles \cup {frame.fname}
    /\ wlog' = Append(wlog, frame.fname)
    /\ pc' = "wsm_write"
    /\ UNCHANGED <<op, arg, ret, frame, loop>>

WsmOpenFail ==
    /\ pc = "wsm_open"
    /\ ret' = Raise("IOError")
    /\ pc' = "done"
    /\ UNCHANGED <<op, arg, disk, handles, wlog, frame, loop>>

\* line 213
WsmWriteOk ==
    /\ pc = "wsm_write"
    /\ disk' = [disk EXCEPT ![frame.fname] = frame.config]
    /\ pc' = "wsm_exit"
    /\ UNCHANGED <<op, arg, ret, handles, wlog, frame, loop>>

\* line 213 raises IOError: the with statement closes the file on the way out
WsmWriteFail ==
    /\ pc = "wsm_write"
    /\ \E part \in Partial(frame.config) :
         disk' = [disk EXCEPT ![frame.fname] = part]
    /\ handles' = handles \ {frame.fname}
    /\ ret' = Raise("IOError")
    /\ pc' = "done"
    /\ UNCHANGED <<op, arg, wlog, frame, loop>>

\* line 214 and the normal exit of the with statement
WsmExit ==
    /\ pc = "wsm_exit"
    /\ handles' = handles \ {frame.fname}
    /\ frame' = NoFrame
    /\ pc' = "done"
    /\ ret' = Value(<<>>)
    /\ UNCHANGED <<op, arg, disk, wlog, loop>>

Next ==
    \/ CallGenTileConfig
    \/ CallGenStitchingMacroCode
    \/ CallLocateTemplates
    \/ CallWriteTileConfig
    \/ CallWriteAllTileConfigs
    \/ CallWriteStitchingMacro
    \/ WtcOpenOk
    \/ WtcOpenFail
    \/ WtcWriteOk
    \/ WtcWriteFail
    \/ WtcClose
    \/ WatcIterate
    \/ WatcReturn
    \/ WsmOpenOk
    \/ WsmOpenFail
    \/ WsmWriteOk
    \/ WsmWriteFail
    \/ WsmExit

Spec == Init /\ [][Next]_vars

(***************************************************************************)
(* Properties.                                                             *)
(***************************************************************************)
Returned == pc = "done" /\ ret.kind = "value"

HasBackslash(line) == "\\" \in Range(line)

\* the coordinates of a tile line: the text between its parentheses
CoordPart(line) == SubSeq(line, Find(line, "(") + 1, Find(line, ")") - 1)

NumCoords(line) == Count(CoordPart(line), ",") + 1

LastCoord(line) == Drop(CoordPart(line), RFind(CoordPart(line), ",") + 1)

\* the lines of a tile configuration that describe sub-volumes
TileLines(conf) == {conf[i] : i \in 5..Len(conf)}

Max(a, b) == IF a >= b THEN a ELSE b

\* ---- gen_stitching_macro_code: the positions of the parts of a macro ----
MacroCall == op = "gen_stitching_macro_code" /\ Returned

NHead == Len(arg.tpl.head)

NOpts == Len(arg.opts)

NBody == Len(arg.tpl.body)

NCompute == IF arg.experiment.overlap < OverlapThreshold THEN 1 ELSE 0

SuppliedComputeFalse ==
    \/ \E i \in 1..NOpts : arg.opts[i] = <<"compute", "false">>
    \/ ComputeFalseLine \in Range(arg.tpl.head) \cup Range(arg.tpl.body)

\* C1 as stated: the macro contains the line compute = false; if and only
\* if the overlap percentage is below 5.0
C1_AsStated ==
    MacroCall =>
        (ComputeFalseLine \in Range(ret.val) <=> arg.experiment.overlap < OverlapThreshold)

\* C1: the generator adds its own line compute = false; right after the
\* option lines if and only if the overlap is below 5.0 percent, and the
\* macro contains such a line if and only if the overlap is below 5.0
\* percent or the caller's options or a template supply one
C1_ComputeFalseIffLowOverlap ==
    MacroCall =>
        /\ Len(ret.val) = NHead + NOpts + NBody + 10 + NCompute
        /\ (arg.experiment.overlap < OverlapThreshold
              <=> /\ ret.val[NHead + NOpts + 8] = ComputeFalseLine
                  /\ ret.val[NHead + NOpts + 9] = BlankLine
                  /\ ret.val[NHead + NOpts + 10] = BeginBodyLine)
        /\ (ComputeFalseLine \in Range(ret.val)
              <=> arg.experiment.overlap < OverlapThreshold \/ SuppliedComputeFalse)

C1_Witness ==
    /\ MacroCall
    /\ arg.experiment.overlap = OverlapThreshold
    /\ arg.opts = << <<"compute", "false">> >>
    /\ ComputeFalseLine \in Range(ret.val)

\* ---- locate_templates ----
IsJarPath(tplpath) == endswith(lower(tplpath), JarSuffix)

\* the entries of the jar's directory whose names start with its base name
JarMatches(tplpath, fs) ==
    {basename(q) : q \in {e \in fs : /\ dirname(e) = dirname(tplpath)
                                     /\ startswith(basename(e),
                                                   basename(splitext0(tplpath)))}}

\* C2: given a path ending in .jar, locate_templates returns the
\* lexically last of the entries of the jar's directory that share the
\* jar's base name, joined to that directory
C2_JarLexicallyLast ==
    (op = "locate_templates" /\ pc = "done" /\ IsJarPath(arg.tplpath)
       /\ JarMatches(arg.tplpath, arg.fs) # {})
    => \E m \in JarMatches(arg.tplpath, arg.fs) :
         /\ \A y \in JarMatches(arg.tplpath, arg.fs) : y = m \/ StrLess(y, m)
         /\ ret = Value(join(dirname(arg.tplpath), m))

C2_Witness ==
    /\ op = "locate_templates"
    /\ pc = "done"
    /\ arg.tplpath = <<"/", "p", "/", "f", "o", "o", ".", "j", "a", "r">>
    /\ arg.fs = {<<"/", "p", "/", "f", "o", "o", "-", "1", ".", "0", ".", "0", ".", "j", "a", "r">>, <<"/", "p", "/", "f", "o", "o", "-", "1", ".", "2", ".", "0", ".", "j", "a", "r">>}
    /\ ret = Value(<<"/", "p", "/", "f", "o", "o", "-", "1", ".", "2", ".", "0", ".", "j", "a", "r">>)

NoTemplateLocation(tplpath, fs) ==
    IF tplpath = <<>>
    THEN /\ ~exists(join(ModuleDir, DefaultTemplates), fs)
         /\ ~exists(join(ModuleDir, DefaultTemplates) \o ZipSuffix, fs)
    ELSE IF IsJarPath(tplpath) THEN JarMatches(tplpath, fs) = {}
    ELSE ~exists(tplpath, fs)

\* C3 as stated: whenever no template location is found, locate_templates
\* and gen_stitching_macro_code fail with the template-location error
C3_AsStated ==
    (op \in {"locate_templates", "gen_stitching_macro_code"} /\ pc = "done"
       /\ NoTemplateLocation(arg.tplpath, arg.fs))
    => ret = TemplatesNotFound

\* ---- write_all_tile_configs ----
WriteAll == op = "write_all_tile_configs"

IndexField(fname) ==
    SubSeq(fname, Find(fname, "mosaic_") + 1, Find(fname, ".txt") - 1)

LargestIndex(experiment) ==
    CHOOSE m \in {experiment[j].index : j \in 1..Len(experiment)} :
        \A j \in 1..Len(experiment) : experiment[j].index <= m

OutputDir(mosaic_ds, outdir) == IF outdir = <<>> THEN mosaic_ds.path ELSE outdir

\* C4 as stated: every index is zero-padded to the width of the largest
\* index of the experiment
C4_AsStated ==
    WriteAll =>
        \A j \in 1..Len(wlog) :
            Len(IndexField(wlog[j])) = Len(Str(LargestIndex(arg.experiment)))

\* C4: the j-th file written is mosaic_<index>.txt in the output directory,
\* the index zero-padded to the number of digits of the mosaic count N, the
\* same minimum width for every mosaic; an index with more digits than that
\* is written in full
C4_PaddedToDigitsOfCount ==
    WriteAll =>
        \A j \in 1..Len(wlog) :
            LET digits == Str(arg.experiment[j].index)
                width == Max(Len(Str(Len(arg.experiment))), Len(digits))
            IN  /\ Len(IndexField(wlog[j])) = width
                /\ wlog[j] = join(OutputDir(arg.experiment[j], arg.outdir),
                                  <<"mosaic_">> \o Zeros(width - Len(digits))
                                  \o digits \o <<".txt">>)

C4_Witness ==
    /\ WriteAll
    /\ Len(arg.experiment) = 10
    /\ arg.experiment[1].index = 0
    /\ Len(wlog) = 10
    /\ IndexField(wlog[10]) = <<"0", "9">>

\* ---- gen_tile_config ----
TileCall == op = "gen_tile_config" /\ pc = "done"

\* C5 as stated: for a 2-D mosaic gen_tile_config returns a config that
\* declares dim = 2 and whose sub-volume lines have exactly two floats,
\* whatever the length of the relative positions
C5_AsStated ==
    (TileCall /\ arg.mosaic_ds.subvol[1].Z <= 1)
    => /\ ret.kind = "value"
       /\ ret.val[3] = Dim2Line
       /\ \A line \in TileLines(ret.val) : NumCoords(line) = 2

\* C6: for a mosaic whose first sub-volume has a Z size above 1 and whose
\* relative positions are all 2-D, the config declares dim = 3 and every
\* sub-volume line has three coordinates, the third being 0.0
C6_ThreeDimPadsZ ==
    (TileCall /\ arg.mosaic_ds.subvol[1].Z > 1
       /\ \A i \in 1..Len(arg.mosaic_ds.subvol) : Len(arg.mosaic_ds.subvol[i].rel) = 2)
    => /\ ret.kind = "value"
       /\ ret.val[3] = Dim3Line
       /\ Len(ret.val) = 4 + Len(arg.mosaic_ds.subvol)
       /\ \A line \in TileLines(ret.val) :
            /\ NumCoords(line) = 3
            /\ LastCoord(line) = <<"0", ".", "0">>

C6_Witness ==
    /\ TileCall
    /\ Len(arg.mosaic_ds.subvol) = 2
    /\ arg.mosaic_ds.subvol[1].Z = 2
    /\ arg.mosaic_ds.subvol[2].Z = 1
    /\ \A i \in 1..2 : Len(arg.mosaic_ds.subvol[i].rel) = 2
    /\ ret.kind = "value"
    /\ LastCoord(ret.val[6]) = <<"0", ".", "0">>

\* C7 as stated: no line produced by gen_tile_config or
\* gen_stitching_macro_code contains a backslash
C7_AsStated ==
    (op \in {"gen_tile_config", "gen_stitching_macro_code"} /\ Returned)
    => \A i \in 1..Len(ret.val) : ~HasBackslash(ret.val[i])

\* C7: no line produced by gen_tile_config contains a backslash; the
\* input_dir line of gen_stitching_macro_code keeps every backslash of the
\* caller's path, doubled, and turns none into a forward slash
C7_TileLinesForwardSlashes ==
    /\ (op = "gen_tile_config" /\ Returned)
       => \A i \in 1..Len(ret.val) : ~HasBackslash(ret.val[i])
    /\ MacroCall
       => /\ Count(ret.val[NHead + 6], "\\") = 2 * Count(arg.path, "\\")
          /\ Count(ret.val[NHead + 6], "/") = Count(arg.path, "/")

C7_Witness ==
    /\ op = "gen_tile_config"
    /\ Returned
    /\ HasBackslash(arg.mosaic_ds.subvol[1].full)
    /\ ~startswith(arg.mosaic_ds.subvol[1].full, arg.mosaic_ds.path)
    /\ Count(ret.val[5], "/") = 2

\* C8: the macro is, in this order, the head template lines, the name
\* line, the input_dir line, use_batch_mode = true;, one key = value; line
\* per option, the generated compute = false; when the overlap is low, and
\* the body template lines
C8_MacroOrder ==
    MacroCall =>
        /\ Len(ret.val) = NHead + NOpts + NBody + 10 + NCompute
        /\ ret.val[2] = BeginHeadLine
        /\ \A i \in 1..NHead : ret.val[2 + i] = arg.tpl.head[i]
        /\ ret.val[NHead + 3] = EndHeadLine
        /\ ret.val[NHead + 5] = <<"name = \"">> \o arg.experiment.dname \o <<"\";\n">>
        /\ Find(ret.val[NHead + 6], "input_dir=\"") = 1
        /\ ret.val[NHead + 7] = BatchModeLine
        /\ \A i \in 1..NOpts :
             ret.val[NHead + 7 + i] = <<arg.opts[i][1], " = ", arg.opts[i][2], ";\n">>
        /\ NCompute = 1 => ret.val[NHead + NOpts + 8] = ComputeFalseLine
        /\ ret.val[NHead + NOpts + NCompute + 9] = BeginBodyLine
        /\ \A i \in 1..NBody : ret.val[NHead + NOpts + NCompute + 9 + i] = arg.tpl.body[i]

C8_Witness ==
    /\ MacroCall
    /\ NHead = 1
    /\ NBody = 1
    /\ NOpts = 2
    /\ arg.opts[1] = <<"compute", "true">>
    /\ NCompute = 1
    /\ ret.val[NHead + NOpts + 8] = ComputeFalseLine

\* C9 as stated: when a call of write_tile_config or write_stitching_macro
\* has returned or raised, no file handle is open
C9_AsStated ==
    (op \in {"write_tile_config", "write_all_tile_configs", "write_stitching_macro"}
       /\ pc \in {"done", "watc_loop"})
    => handles = {}

\* ---- write_all_tile_configs: order and failure ----
ExpectedNames ==
    [j \in 1..Len(arg.experiment) |->
        tile_config_fname(arg.experiment[j], arg.outdir, loop.padlen)]

\* C10: the mosaics are written one at a time in experiment order, each
\* file opened once; when writing the k-th fails the call ends with the
\* I/O error, the files of the mosaics before k hold their complete config
\* and no file of a later mosaic exists
C10_SequentialFailStop ==
    WriteAll =>
        /\ Len(wlog) <= Len(arg.experiment)
        /\ wlog = Prefix(ExpectedNames, Len(wlog))
        /\ Len(wlog) \in {loop.i - 1, loop.i}
        /\ \A j \in 1..Len(arg.experiment) :
             /\ j < loop.i =>
                  /\ ExpectedNames[j] \in DOMAIN disk
                  /\ disk[ExpectedNames[j]] = gen_tile_config(arg.experiment[j]).val
             /\ j > loop.i => ExpectedNames[j] \notin DOMAIN disk
        /\ (pc = "done" /\ loop.i <= Len(arg.experiment)) => ret = Raise("IOError")
        /\ (pc = "done" /\ loop.i > Len(arg.experiment)) => ret = Value(<<>>)

C10_Witness ==
    /\ WriteAll
    /\ pc = "done"
    /\ ret = Raise("IOError")
    /\ Len(arg.experiment) = 3
    /\ loop.i = 2
    /\ Len(wlog) = 2
    /\ disk[wlog[1]] = gen_tile_config(arg.experiment[1]).val
    /\ disk[wlog[2]] # gen_tile_config(arg.experiment[2]).val

====
